---------------------------- MODULE Spec2Model ----------------------------
(***************************************************************************)
(* Model of validate_setup.py: the SetupValidator, its eight checks, the   *)
(* runner loop of run_validation, print_summary and main's exit code.      *)
(*                                                                         *)
(* The ambient environment the checks read (interpreter version, process   *)
(* environment, importable modules, files under the working directory) is  *)
(* part of the state: Init draws it from bounded sets, the checks read it, *)
(* and only check_output_directory changes it.                             *)
(*                                                                         *)
(* Text is modelled in two ways.  Messages the program builds are TLA+     *)
(* strings, built with \o as the f-strings build them.  Text the program   *)
(* inspects character by character (the contents of .env, the API key)     *)
(* is a sequence of one-character strings.                                 *)
(***************************************************************************)
EXTENDS Integers, Sequences, FiniteSets, TLC

VARIABLES
    version_info,         \* sys.version_info: <<major, minor, micro>>
    environ,              \* os.environ, as far as read: CONDA_PREFIX if set
    modules,              \* outcome of importing each module name
    lx,                   \* the langextract package: __version__ and metadata
    fs,                   \* the files the checks look at, under the cwd
    errors,               \* SetupValidator.errors
    warnings,             \* SetupValidator.warnings
    python_version,       \* SetupValidator.python_version
    langextract_version,  \* SetupValidator.langextract_version
    pc,                   \* where the process is: "checks", "summary", "exit",
                          \* "done" (in SpecTwice: "call", "raised")
    i,                    \* index into `checks` of the next check to run
                          \* (in SpecTwice: the number of the next call)
    passed,               \* run_validation's local counter
    ret,                  \* what the last call of check_func() produced
    headers,              \* the "--- name ---" lines printed so far, in order
    summary,              \* the summaries print_summary has printed
    mkdirs,               \* number of mkdir calls issued
    exit_code             \* the code passed to sys.exit, None before

env_vars == <<version_info, environ, modules, lx>>
val_vars == <<errors, warnings, python_version, langextract_version>>
run_vars == <<pc, i, passed, ret, headers, summary, exit_code>>
vars == <<version_info, environ, modules, lx, fs, errors, warnings,
          python_version, langextract_version, pc, i, passed, ret, headers,
          summary, mkdirs, exit_code>>

None == "None"

(***************************************************************************)
(* Bounds of the model.                                                    *)
(***************************************************************************)
\* How many facets of the environment may differ from the reference
\* environment (the one in which every check finds what it looks for).
MaxDeviations == 2
\* How many times the output-directory check is called in SpecTwice.
MaxCalls == 2

(***************************************************************************)
(* Character-level text functions, as Python computes them.                *)
(***************************************************************************)
Whitespace == {" ", "\t", "\n", "\r", "\f"}

Max(S) == CHOOSE x \in S : \A y \in S : y <= x

Min(S) == CHOOSE x \in S : \A y \in S : x <= y

\* str.strip(): drop leading and trailing characters of `chars`.
strip_chars(s, chars) ==
    LET keep == {k \in 1..Len(s) : s[k] \notin chars}
    IN  IF keep = {} THEN <<>> ELSE SubSeq(s, Min(keep), Max(keep))

strip(s) == strip_chars(s, Whitespace)

startswith(s, prefix) ==
    /\ Len(s) >= Len(prefix)
    /\ SubSeq(s, 1, Len(prefix)) = prefix

\* First position >= p of s that holds no whitespace (Len(s)+1 if none).
SkipWhitespace(s, p) ==
    Min({q \in p..(Len(s) + 1) : q = Len(s) + 1 \/ s[q] \notin Whitespace})

\* First position >= p of s that holds a newline (Len(s)+1 if none).
LineEnd(s, p) ==
    Min({q \in p..(Len(s) + 1) : q = Len(s) + 1 \/ s[q] = "\n"})

KeyName ==
    <<"L","A","N","G","E","X","T","R","A","C","T","_","A","P","I","_","K","E","Y">>

\* re.match of  LANGEXTRACT_API_KEY\s*=\s*(.+)  at position p of s.
\* Both \s* are greedy; the second gives characters back until (.+) finds a
\* character that is not a newline; (.+) then runs to the end of that line.
\* The result is <<start, end>> of group 1, or <<>> when there is no match.
api_key_match_at(s, p) ==
    LET q == SkipWhitespace(s, p + Len(KeyName))
        r == q + 1
        e == SkipWhitespace(s, r)
        K == {k \in r..e : k <= Len(s) /\ s[k] # "\n"}
    IN  IF /\ p + Len(KeyName) - 1 <= Len(s)
           /\ SubSeq(s, p, p + Len(KeyName) - 1) = KeyName
           /\ q <= Len(s)
           /\ s[q] = "="
           /\ K # {}
        THEN <<Max(K), LineEnd(s, Max(K)) - 1>>
        ELSE <<>>

\* re.search(api_key_pattern, content): the leftmost position that matches.
\* The result is [matched, group1].
re_search(s) ==
    LET P == {p \in 1..Len(s) : api_key_match_at(s, p) # <<>>}
    IN  IF P = {}
        THEN [matched |-> FALSE, group1 |-> <<>>]
        ELSE LET g == api_key_match_at(s, Min(P))
             IN  [matched |-> TRUE, group1 |-> SubSeq(s, g[1], g[2])]


contains(s, sub) ==
    \E p \in 1..(Len(s) - Len(sub) + 1) : SubSeq(s, p, p + Len(sub) - 1) = sub

(***************************************************************************)
(* What a check hands to the runner: the value it returned ("True",        *)
(* "False", "None" for a function that ends without a return statement) or *)
(* "raise" with the exception's text, and the messages it appended to      *)
(* errors and warnings before it returned or raised.                       *)
(***************************************************************************)
Returned(value, errs, warns) ==
    [ret |-> value, exc |-> "", errs |-> errs, warns |-> warns]

Raised(exc, errs, warns) ==
    [ret |-> "raise", exc |-> exc, errs |-> errs, warns |-> warns]

(***************************************************************************)
(* check_python_version                                                    *)
(***************************************************************************)
format_version(vi) ==
    ToString(vi[1]) \o "." \o ToString(vi[2]) \o "." \o ToString(vi[3])

\* A variant that forgets the major version.
version_compatible_minor_only(vi) == vi[2] >= 11

version_compatible(vi) == vi[1] = 3 /\ vi[2] >= 11

check_python_version(vi) ==
    IF version_compatible(vi)
    THEN Returned("True", <<>>, <<>>)
    ELSE Returned("False", <<"Python version incompatible">>, <<>>)

(***************************************************************************)
(* check_conda_environment.  os.environ.get gives None for a variable that *)
(* is not set; None and the empty string are both falsy.                   *)
(* CONDA_DEFAULT_ENV is only printed and is left out.                      *)
(***************************************************************************)
Langextract == <<"l","a","n","g","e","x","t","r","a","c","t">>

has_conda_prefix(env) ==
    /\ "CONDA_PREFIX" \in DOMAIN env
    /\ env["CONDA_PREFIX"] # <<>>

\* A variant that reports failure whenever it warns.
check_conda_environment_strict(env) ==
    IF has_conda_prefix(env) /\ contains(env["CONDA_PREFIX"], Langextract)
    THEN Returned("True", <<>>, <<>>)
    ELSE IF has_conda_prefix(env)
    THEN Returned("False", <<>>, <<"May not be in correct conda environment">>)
    ELSE Returned("False", <<>>,
                  <<"Consider using conda environment for better isolation">>)

check_conda_environment(env) ==
    IF has_conda_prefix(env) /\ contains(env["CONDA_PREFIX"], Langextract)
    THEN Returned("True", <<>>, <<>>)
    ELSE IF has_conda_prefix(env)
    THEN Returned("True", <<>>, <<"May not be in correct conda environment">>)
    ELSE Returned("True", <<>>,
                  <<"Consider using conda environment for better isolation">>)

(***************************************************************************)
(* check_langextract_installation.  Importing a module ends in one of      *)
(* "ok", "ImportError", or "Exception" (any other exception, whose text is *)
(* ImportFault).  Every exception is caught inside the check.              *)
(***************************************************************************)
ImportFault == "binary incompatibility"

discovered_langextract_version(pkg) ==
    IF pkg.attr # None THEN pkg.attr
    ELSE IF pkg.meta # "fail" THEN pkg.meta
    ELSE "unknown"

check_langextract_installation(mods) ==
    CASE mods["langextract"] = "ok" -> Returned("True", <<>>, <<>>)
      [] mods["langextract"] = "ImportError" ->
             Returned("False", <<"LangExtract not installed">>, <<>>)
      [] OTHER ->
             Returned("False", <<"LangExtract error: " \o ImportFault>>, <<>>)

(***************************************************************************)
(* check_dependencies                                                      *)
(***************************************************************************)
critical_deps ==
    <<"google.genai", "aiohttp", "pydantic", "python_dotenv", "requests",
      "numpy", "pandas">>

\* dep.replace('python_dotenv', 'dotenv').replace('google.genai', ...)
import_name(dep) ==
    IF dep = "python_dotenv" THEN "dotenv"
    ELSE IF dep = "google.genai" THEN "google.generativeai"
    ELSE dep

\* One pass of the loop body: "ok", "missing" (ImportError after the
\* alternative import name was tried) or "raise" (another exception, which
\* neither except clause catches).
import_dependency(mods, dep) ==
    CASE mods[import_name(dep)] = "ok" -> "ok"
      [] mods[import_name(dep)] = "Exception" -> "raise"
      [] OTHER ->
           IF dep = "google.genai"
           THEN CASE mods["google.genai"] = "ok" -> "ok"
                  [] mods["google.genai"] = "ImportError" -> "missing"
                  [] OTHER -> "raise"
           ELSE "missing"

\* A variant of the loop that stops at the first missing dependency.
dependencies_from_first_missing(mods, k, errs) ==
    LET bad == {j \in k..Len(critical_deps) :
                   import_dependency(mods, critical_deps[j]) # "ok"}
    IN  IF bad = {} THEN Returned(None, errs, <<>>)
        ELSE IF import_dependency(mods, critical_deps[Min(bad)]) = "raise"
        THEN Raised(ImportFault, errs, <<>>)
        ELSE Returned(None,
                 Append(errs, "Missing dependency: " \o critical_deps[Min(bad)]),
                 <<>>)

RECURSIVE dependencies_from(_, _, _)
\* The loop from the k-th dependency on, errs being the errors appended so
\* far.  The function has no return statement: it returns None.
dependencies_from(mods, k, errs) ==
    IF k > Len(critical_deps) THEN Returned(None, errs, <<>>)
    ELSE LET dep == critical_deps[k]
             out == import_dependency(mods, dep)
         IN  CASE out = "ok" -> dependencies_from(mods, k + 1, errs)
               [] out = "missing" ->
                    dependencies_from(mods, k + 1,
                        Append(errs, "Missing dependency: " \o dep))
               [] OTHER -> Raised(ImportFault, errs, <<>>)

check_dependencies(mods) == dependencies_from(mods, 1, <<>>)

(***************************************************************************)
(* Files.  fs.cwd is the permission of the working directory: "rwx",       *)
(* "r-x" (entries cannot be created) or "rw-" (entries cannot be looked    *)
(* up: Path.exists() raises PermissionError, which is not one of the       *)
(* errors pathlib treats as "does not exist").                             *)
(***************************************************************************)
PermissionDenied(path) == "[Errno 13] Permission denied: '" \o path \o "'"

FileExists(path) == "[Errno 17] File exists: '" \o path \o "'"

(***************************************************************************)
(* check_api_key_file                                                      *)
(***************************************************************************)
Placeholder ==
    <<"y","o","u","r","-","a","p","i","-","k","e","y","-","h","e","r","e">>

AIza == <<"A","I","z","a">>

MinKeyLen == 35

\* match.group(1).strip().strip('"\'')
extract_api_key(group1) == strip_chars(strip(group1), {"\"", "'"})

key_is_unset(api_key) == api_key = <<>> \/ api_key = Placeholder

\* A variant that accepts either half of the format test.
key_format_valid_either(api_key) ==
    startswith(api_key, AIza) \/ Len(api_key) >= MinKeyLen

key_format_valid(api_key) ==
    startswith(api_key, AIza) /\ Len(api_key) >= MinKeyLen

check_api_key_file(f) ==
    IF f.cwd = "rw-" THEN Raised(PermissionDenied(".env"), <<>>, <<>>)
    ELSE IF ~f.env.exists THEN Returned("False", <<"Missing .env file">>, <<>>)
    ELSE IF ~f.env.readable
    THEN Returned("False",
                  <<".env file error: " \o PermissionDenied(".env")>>, <<>>)
    ELSE LET match == re_search(f.env.content)
             api_key == extract_api_key(match.group1)
         IN  IF ~match.matched
             THEN Returned("False", <<"API key not configured">>, <<>>)
             ELSE IF key_is_unset(api_key)
             THEN Returned("False", <<"API key placeholder not replaced">>, <<>>)
             ELSE IF key_format_valid(api_key)
             THEN Returned("True", <<>>, <<>>)
             ELSE Returned("True", <<>>, <<"API key format questionable">>)

(***************************************************************************)
(* check_api_connectivity                                                  *)
(***************************************************************************)
check_api_connectivity == Returned("True", <<>>, <<>>)

(***************************************************************************)
(* check_output_directory.  fs.outputs is "dir", "file", "absent" or       *)
(* "dangling" (a symbolic link to nothing: exists() is False and mkdir     *)
(* raises FileExistsError, which exist_ok forgives only for a directory).  *)
(***************************************************************************)
outputs_exists(f) == f.outputs \in {"dir", "file"}

\* Whether the check calls mkdir.
output_directory_mkdir(f) == f.cwd # "rw-" /\ ~outputs_exists(f)

\* A variant in which mkdir creates nothing.
output_directory_fs_unchanged(f) == f

\* A variant that replaces whatever is at outputs by a directory.
output_directory_fs_replace(f) ==
    IF f.cwd = "rwx" THEN [f EXCEPT !.outputs = "dir"] ELSE f

\* The files after the check.
output_directory_fs(f) ==
    IF output_directory_mkdir(f) /\ f.outputs = "absent" /\ f.cwd = "rwx"
    THEN [f EXCEPT !.outputs = "dir"]
    ELSE f

check_output_directory(f) ==
    IF f.cwd = "rw-" THEN Raised(PermissionDenied("outputs"), <<>>, <<>>)
    ELSE IF outputs_exists(f) THEN Returned("True", <<>>, <<>>)
    ELSE IF f.outputs = "dangling"
    THEN Raised(FileExists("outputs"), <<>>, <<>>)
    ELSE IF f.cwd # "rwx"
    THEN Raised(PermissionDenied("outputs"), <<>>, <<>>)
    ELSE Returned("True", <<>>, <<>>)

(***************************************************************************)
(* check_examples.  fs.examples_dir is "dir", "absent" or "noaccess" (a    *)
(* directory whose entries cannot be looked up); fs.examples is the set of *)
(* files in it.                                                            *)
(***************************************************************************)
expected_examples ==
    <<"basic_example.py", "medical_example.py", "visualization_example.py",
      "url_example.py">>

AllExamples == {expected_examples[k] : k \in 1..Len(expected_examples)}

RECURSIVE examples_from(_, _, _)
examples_from(f, k, warns) ==
    IF k > Len(expected_examples) THEN Returned("True", <<>>, warns)
    ELSE IF f.examples_dir = "noaccess"
    THEN Raised(PermissionDenied("examples/" \o expected_examples[k]),
                <<>>, warns)
    ELSE IF expected_examples[k] \in f.examples
    THEN examples_from(f, k + 1, warns)
    ELSE examples_from(f, k + 1,
             Append(warns, "Missing example: " \o expected_examples[k]))

\* A variant that reports failure when a file is missing.
check_examples_strict(f) ==
    IF f.cwd = "rw-" THEN Raised(PermissionDenied("examples"), <<>>, <<>>)
    ELSE IF f.examples_dir = "absent"
    THEN Returned("False", <<"Missing examples directory">>, <<>>)
    ELSE IF f.examples_dir = "dir" /\ f.examples # AllExamples
    THEN Returned("False", <<>>, examples_from(f, 1, <<>>).warns)
    ELSE examples_from(f, 1, <<>>)

check_examples(f) ==
    IF f.cwd = "rw-" THEN Raised(PermissionDenied("examples"), <<>>, <<>>)
    ELSE IF f.examples_dir = "absent"
    THEN Returned("False", <<"Missing examples directory">>, <<>>)
    ELSE examples_from(f, 1, <<>>)


(***************************************************************************)
(* run_validation, print_summary and main.                                 *)
(***************************************************************************)
\* A variant of the list with the last two checks exchanged.
checks_reordered ==
    <<"Python Version", "Conda Environment", "LangExtract Installation",
      "Dependencies", "API Key Configuration", "Output Directory",
      "API Connectivity", "Example Files">>

checks ==
    <<"Python Version", "Conda Environment", "LangExtract Installation",
      "Dependencies", "API Key Configuration", "Output Directory",
      "Example Files", "API Connectivity">>

total == Len(checks)

\* `if check_func():` -- the truth value Python gives the returned object.
truthy(value) == value = "True"

\* A variant that counts a passing check twice.
count_passed_twice(n, res) == IF truthy(res.ret) THEN n + 2 ELSE n

\* `passed += 1` under `if check_func():`; a raise skips it.
count_passed(n, res) == IF truthy(res.ret) THEN n + 1 ELSE n

\* A variant whose except clause swallows the exception.
runner_errors_silent(check_name, res) == <<>>

\* The except clause of the loop: what the runner appends for a check.
runner_errors(check_name, res) ==
    IF res.ret = "raise"
    THEN <<check_name \o " check failed: " \o res.exc>>
    ELSE <<>>

\* A variant in which warnings count against the result.
run_validation_result_strict(errs, warns) == Len(errs) = 0 /\ Len(warns) = 0

\* `return len(self.errors) == 0`
run_validation_result(errs, warns) == Len(errs) = 0

\* `sys.exit(0 if success else 1)`
exit_status(success) == IF success THEN 0 ELSE 1

\* The closing line print_summary chooses.
summary_verdict(errs, warns) ==
    IF errs = <<>> /\ warns = <<>> THEN "perfect"
    ELSE IF errs = <<>> THEN "functional with minor warnings"
    ELSE "critical issues"

\* A variant of the loop body that puts new errors in front of the list.
RunCheckInsertingErrors(check_name, res) ==
    /\ pc = "checks"
    /\ i <= total
    /\ checks[i] = check_name
    /\ headers' = Append(headers, check_name)
    /\ ret' = res.ret
    /\ errors' = res.errs \o runner_errors(check_name, res) \o errors
    /\ warnings' = warnings \o res.warns
    /\ passed' = count_passed(passed, res)
    /\ i' = i + 1
    /\ pc' = IF i' > total THEN "summary" ELSE "checks"
    /\ UNCHANGED <<summary, exit_code>>
    /\ UNCHANGED env_vars

\* One pass of the loop of run_validation over the check called check_name,
\* res being what that check did.  The loop goes on to the next entry of
\* `checks` whatever the check did; after the last one comes the summary.
RunCheck(check_name, res) ==
    /\ pc = "checks"
    /\ i <= total
    /\ checks[i] = check_name
    /\ headers' = Append(headers, check_name)
    /\ ret' = res.ret
    /\ errors' = errors \o res.errs \o runner_errors(check_name, res)
    /\ warnings' = warnings \o res.warns
    /\ passed' = count_passed(passed, res)
    /\ i' = i + 1
    /\ pc' = IF i' > total THEN "summary" ELSE "checks"
    /\ UNCHANGED <<summary, exit_code>>
    /\ UNCHANGED env_vars

PythonVersion ==
    /\ RunCheck("Python Version", check_python_version(version_info))
    /\ python_version' = format_version(version_info)
    /\ UNCHANGED <<langextract_version, fs, mkdirs>>

CondaEnvironment ==
    /\ RunCheck("Conda Environment", check_conda_environment(environ))
    /\ UNCHANGED <<python_version, langextract_version, fs, mkdirs>>

LangExtractInstallation ==
    /\ RunCheck("LangExtract Installation",
                check_langextract_installation(modules))
    /\ langextract_version' =
           IF modules["langextract"] = "ok"
           THEN discovered_langextract_version(lx)
           ELSE langextract_version
    /\ UNCHANGED <<python_version, fs, mkdirs>>

Dependencies ==
    /\ RunCheck("Dependencies", check_dependencies(modules))
    /\ UNCHANGED <<python_version, langextract_version, fs, mkdirs>>

ApiKeyConfiguration ==
    /\ RunCheck("API Key Configuration", check_api_key_file(fs))
    /\ UNCHANGED <<python_version, langextract_version, fs, mkdirs>>

OutputDirectory ==
    /\ RunCheck("Output Directory", check_output_directory(fs))
    /\ fs' = output_directory_fs(fs)
    /\ mkdirs' = IF output_directory_mkdir(fs) THEN mkdirs + 1 ELSE mkdirs
    /\ UNCHANGED <<python_version, langextract_version>>

ExampleFiles ==
    /\ RunCheck("Example Files", check_examples(fs))
    /\ UNCHANGED <<python_version, langextract_version, fs, mkdirs>>

ApiConnectivity ==
    /\ RunCheck("API Connectivity", check_api_connectivity)
    /\ UNCHANGED <<python_version, langextract_version, fs, mkdirs>>

\* A variant of print_summary that leaves the warnings out.
PrintSummaryWithoutWarnings ==
    /\ pc = "summary"
    /\ summary' = Append(summary,
           [passed |-> passed, total |-> total, errors |-> errors,
            warnings |-> <<>>, python_version |-> python_version,
            langextract_version |-> langextract_version,
            verdict |-> summary_verdict(errors, warnings)])
    /\ pc' = "exit"
    /\ UNCHANGED <<i, passed, ret, headers, exit_code, fs, mkdirs>>
    /\ UNCHANGED env_vars
    /\ UNCHANGED val_vars

\* self.print_summary(passed, total)
PrintSummary ==
    /\ pc = "summary"
    /\ summary' = Append(summary,
           [passed |-> passed, total |-> total, errors |-> errors,
            warnings |-> warnings, python_version |-> python_version,
            langextract_version |-> langextract_version,
            verdict |-> summary_verdict(errors, warnings)])
    /\ pc' = "exit"
    /\ UNCHANGED <<i, passed, ret, headers, exit_code, fs, mkdirs>>
    /\ UNCHANGED env_vars
    /\ UNCHANGED val_vars

\* run_validation returns and main exits with the code for its result.
Exit ==
    /\ pc = "exit"
    /\ exit_code' = exit_status(run_validation_result(errors, warnings))
    /\ pc' = "done"
    /\ UNCHANGED <<i, passed, ret, headers, summary, fs, mkdirs>>
    /\ UNCHANGED env_vars
    /\ UNCHANGED val_vars

Next ==
    \/ PythonVersion
    \/ CondaEnvironment
    \/ LangExtractInstallation
    \/ Dependencies
    \/ ApiKeyConfiguration
    \/ OutputDirectory
    \/ ExampleFiles
    \/ ApiConnectivity
    \/ PrintSummary
    \/ Exit

(***************************************************************************)
(* The environments a run may start in.                                    *)
(***************************************************************************)
Repeat(c, n) == [k \in 1..n |-> c]

\* A key of the shape the format heuristic expects, 39 characters long.
GoodKey == AIza \o <<"S","y">> \o Repeat("x", 33)

ShortKey == <<"s","h","o","r","t","k","e","y">>

Quoted(s) == <<"\"">> \o s \o <<"\"">>

KeyValues ==
    { <<>>, <<" ">>, Placeholder, Quoted(Placeholder), Quoted(<<>>),
      ShortKey, <<"'">> \o ShortKey \o <<"'">>, GoodKey, Quoted(GoodKey),
      AIza \o Repeat("x", MinKeyLen - 5), AIza \o Repeat("x", MinKeyLen - 4),
      Repeat("k", MinKeyLen) }

OtherLine == <<"O","=","1">>

LinesBefore == { <<>>, <<"#"," ">>, OtherLine \o <<"\n">> }

Separators == { <<"=">>, <<" ","="," ">> }

LinesAfter == { <<>>, <<"\n">>, <<"\n">> \o OtherLine \o <<"\n">> }

EnvFile(content) == [exists |-> TRUE, readable |-> TRUE, content |-> content]

NoEnvFile == [exists |-> FALSE, readable |-> FALSE, content |-> <<>>]

UnreadableEnvFile == [exists |-> TRUE, readable |-> FALSE, content |-> <<>>]

\* Every .env file of the model.
EnvFiles ==
    { EnvFile(b \o KeyName \o sep \o v \o a) :
        b \in LinesBefore, sep \in Separators, v \in KeyValues, a \in LinesAfter }
    \cup { EnvFile(<<>>), EnvFile(OtherLine \o <<"\n">>), EnvFile(KeyName),
           NoEnvFile, UnreadableEnvFile }

\* The few of them the runs of Spec start from.
EnvFileSamples ==
    { EnvFile(KeyName \o <<"=">> \o GoodKey \o <<"\n">>),
      EnvFile(KeyName \o <<"=">> \o ShortKey),
      EnvFile(KeyName \o <<"=">> \o Placeholder \o <<"\n">>),
      EnvFile(KeyName \o <<"=">> \o <<"\n">> \o OtherLine \o <<"\n">>),
      EnvFile(OtherLine \o <<"\n">>),
      NoEnvFile, UnreadableEnvFile }

Versions == { <<3, 11, 0>>, <<3, 12, 1>>, <<3, 10, 12>>, <<2, 7, 18>>, <<4, 11, 0>> }

CondaPath(name) == <<"/","e","/">> \o name

Environs ==
    { "CONDA_PREFIX" :> CondaPath(Langextract),
      "CONDA_PREFIX" :> CondaPath(<<"b","a","s","e">>),
      "CONDA_PREFIX" :> <<"/">> \o Langextract \o CondaPath(<<"b","a","s","e">>),
      "CONDA_PREFIX" :> <<>>,
      <<>> }

ModuleNames ==
    { "langextract", "google.generativeai", "google.genai", "aiohttp",
      "pydantic", "dotenv", "requests", "numpy", "pandas" }

Packages ==
    { [attr |-> "1.0.9", meta |-> "1.0.9"], [attr |-> None, meta |-> "1.0.8"],
      [attr |-> None, meta |-> "fail"] }

\* The module tables in which at most n imports fail.
ModuleTables(n) ==
    UNION { { [m \in ModuleNames |-> IF m \in S THEN f[m] ELSE "ok"] :
                f \in [S -> {"ImportError", "Exception"}] } :
            S \in {T \in SUBSET ModuleNames : Cardinality(T) <= n} }

ExampleSets == SUBSET AllExamples

\* The reference environment: every check finds what it looks for.
RefVersion == <<3, 11, 0>>
RefEnviron == "CONDA_PREFIX" :> CondaPath(Langextract)
RefPackage == [attr |-> "1.0.9", meta |-> "1.0.9"]
RefEnvFile == EnvFile(KeyName \o <<"=">> \o GoodKey \o <<"\n">>)

Differs(a, b) == IF a = b THEN 0 ELSE 1

BadImports(mods) == Cardinality({m \in ModuleNames : mods[m] # "ok"})

\* The state of a fresh validator in a process that has run no check yet.
InitValidator ==
    /\ errors = <<>>
    /\ warnings = <<>>
    /\ python_version = None
    /\ langextract_version = None
    /\ pc = "checks"
    /\ i = 1
    /\ passed = 0
    /\ ret = None
    /\ headers = <<>>
    /\ summary = <<>>
    /\ mkdirs = 0
    /\ exit_code = None

\* Environments that differ from the reference one in at most
\* MaxDeviations facets (a failing import counts as one facet each).
Init ==
    /\ version_info \in Versions
    /\ environ \in Environs
    /\ lx \in Packages
    /\ Differs(version_info, RefVersion) + Differs(environ, RefEnviron)
         + Differs(lx, RefPackage) <= MaxDeviations
    /\ modules \in ModuleTables(MaxDeviations
         - Differs(version_info, RefVersion) - Differs(environ, RefEnviron)
         - Differs(lx, RefPackage))
    /\ \E cwd \in {"rwx", "r-x", "rw-"},
          env \in EnvFileSamples,
          outputs \in {"dir", "file", "absent", "dangling"},
          examples_dir \in {"dir", "absent", "noaccess"},
          examples \in ExampleSets :
          /\ examples_dir # "dir" => examples = {}
          /\ Differs(version_info, RefVersion) + Differs(environ, RefEnviron)
               + Differs(lx, RefPackage) + BadImports(modules)
               + Differs(cwd, "rwx") + Differs(env, RefEnvFile)
               + Differs(outputs, "dir")
               + Differs(<<examples_dir, examples>>, <<"dir", AllExamples>>)
               <= MaxDeviations
          /\ fs = [cwd |-> cwd, env |-> env, outputs |-> outputs,
                   examples_dir |-> examples_dir, examples |-> examples]
    /\ InitValidator

Spec == Init /\ [][Next]_vars


(***************************************************************************)
(* Properties.                                                             *)
(***************************************************************************)
Finished == pc \in {"summary", "exit", "done"}

\* Every text an exception of the model carries.
FaultTexts ==
    { ImportFault, PermissionDenied(".env"), PermissionDenied("outputs"),
      FileExists("outputs"), PermissionDenied("examples") }
    \cup { PermissionDenied("examples/" \o x) : x \in AllExamples }

\* The entry names the check: it is the runner's "<name> check failed: ...".
RefersTo(entry, check_name) ==
    \E e \in FaultTexts : entry = check_name \o " check failed: " \o e

\* A step of the loop in which the check that was called raised.
RaisingStep == pc = "checks" /\ i' = i + 1 /\ ret' = "raise"

\* C1: when the process has exited, all eight checks have run, and the exit
\* code is 0 if errors is empty and 1 otherwise, whatever warnings holds and
\* whatever was counted as passed.
C1_ExitCodeIffNoErrors ==
    pc = "done" =>
        /\ Len(headers) = 8
        /\ exit_code \in {0, 1}
        /\ exit_code = 0 <=> errors = <<>>

\* C1 witness: a run that exited 0 with three warnings or more and with
\* fewer checks passed than there are.
C1_Witness ==
    /\ pc = "done"
    /\ exit_code = 0
    /\ Len(warnings) >= 3
    /\ passed < total

\* C2 as stated: a check that raises leaves exactly one error entry, which
\* names the check; it is not counted as passed; the later checks all run.
C2_RaiseLeavesOneError ==
    /\ [][RaisingStep =>
            /\ Len(errors') = Len(errors) + 1
            /\ RefersTo(errors'[Len(errors')], checks[i])
            /\ passed' = passed]_vars
    /\ [](Finished => headers = checks)

\* C2 amended: a check that raises leaves whatever errors it appended itself
\* before raising, followed by exactly one entry that names the check (the
\* runner's); the errors before the check are kept; the check is not counted
\* as passed; the loop goes on, and when it ends all eight checks have run.
C2_RaiseLeavesOneNamedError ==
    /\ [][RaisingStep =>
            /\ Len(errors') > Len(errors)
            /\ SubSeq(errors', 1, Len(errors)) = errors
            /\ RefersTo(errors'[Len(errors')], checks[i])
            /\ \A j \in (Len(errors) + 1)..(Len(errors') - 1) :
                   ~RefersTo(errors'[j], checks[i])
            /\ passed' = passed
            /\ pc' = IF i < 8 THEN "checks" ELSE "summary"]_vars
    /\ [](Finished => headers = checks)

\* C2 witness: a finished run in which the dependency check recorded a
\* missing dependency and then raised, and the checks after it ran.
C2_Witness ==
    /\ pc = "done"
    /\ Len(headers) = 8
    /\ \E j \in DOMAIN errors : errors[j] = "Missing dependency: aiohttp"
    /\ \E j \in DOMAIN errors : RefersTo(errors[j], "Dependencies")
    /\ headers[8] = "API Connectivity"
    /\ exit_code = 1

\* The order in which the checks are to be started.
CheckOrder ==
    <<"Python Version", "Conda Environment", "LangExtract Installation",
      "Dependencies", "API Key Configuration", "Output Directory",
      "Example Files", "API Connectivity">>

\* C3: the checks started so far are the first i-1 of the fixed order, each
\* once; when the loop has ended all eight have been started, in that order.
C3_ChecksInFixedOrder ==
    /\ i \in 1..9
    /\ headers = SubSeq(CheckOrder, 1, i - 1)
    /\ Finished => headers = CheckOrder

\* C3 witness: all eight checks have run although the first one failed and a
\* later one raised.
C3_Witness ==
    /\ Finished
    /\ headers = CheckOrder
    /\ errors # <<>>
    /\ errors[1] = "Python version incompatible"
    /\ \E j \in DOMAIN errors : RefersTo(errors[j], "Output Directory")

\* C4: the checks finished so far split into those counted as passed and the
\* others; both counts are natural numbers, and passed is at most 8.
C4_PassedWithinTotal ==
    /\ passed \in 0..(i - 1)
    /\ i - 1 <= total
    /\ total = 8
    /\ \A k \in DOMAIN summary :
           summary[k].passed \in 0..summary[k].total

\* C4 witness: a finished run in which some checks passed and others did not.
C4_Witness ==
    /\ pc = "done"
    /\ passed = 5

DependenciesIndex == CHOOSE k \in 1..total : checks[k] = "Dependencies"

AllDependenciesImportable ==
    \A k \in 1..Len(critical_deps) :
        import_dependency(modules, critical_deps[k]) = "ok"

\* C5: the dependency check hands the runner a boolean, True when every
\* dependency is importable; and a run that found nothing to report counts
\* every check as passed.
C5_DependenciesReturnBoolean ==
    /\ (pc = "checks" /\ i = DependenciesIndex + 1) =>
           /\ ret \in {"True", "False", "raise"}
           /\ AllDependenciesImportable => ret = "True"
    /\ (Finished /\ errors = <<>> /\ warnings = <<>>) => passed = total


(***************************************************************************)
(* A second specification: runs in the reference environment over every    *)
(* .env file of the model.                                                 *)
(***************************************************************************)
InitCredential ==
    /\ version_info = RefVersion
    /\ environ = RefEnviron
    /\ lx = RefPackage
    /\ modules \in ModuleTables(0)
    /\ \E env \in EnvFiles :
          fs = [cwd |-> "rwx", env |-> env, outputs |-> "dir",
                examples_dir |-> "dir", examples |-> AllExamples]
    /\ InitValidator

SpecCredential == InitCredential /\ [][Next]_vars

(***************************************************************************)
(* A third specification: a fresh validator whose check_output_directory   *)
(* is called up to MaxCalls times in succession, from any state of the     *)
(* files.  Here i is the number of the next call, and a call that raises   *)
(* ends the sequence.                                                      *)
(***************************************************************************)
CallOutputDirectory ==
    /\ pc = "call"
    /\ i <= MaxCalls
    /\ LET res == check_output_directory(fs)
       IN  /\ ret' = res.ret
           /\ errors' = errors \o res.errs
           /\ warnings' = warnings \o res.warns
           /\ pc' = IF res.ret = "raise" THEN "raised" ELSE "call"
    /\ fs' = output_directory_fs(fs)
    /\ mkdirs' = IF output_directory_mkdir(fs) THEN mkdirs + 1 ELSE mkdirs
    /\ i' = i + 1
    /\ UNCHANGED <<python_version, langextract_version, passed, headers,
                   summary, exit_code>>
    /\ UNCHANGED env_vars

InitTwice ==
    /\ version_info = RefVersion
    /\ environ = RefEnviron
    /\ lx = RefPackage
    /\ modules \in ModuleTables(0)
    /\ \E cwd \in {"rwx", "r-x", "rw-"},
          env \in EnvFileSamples,
          outputs \in {"dir", "file", "absent", "dangling"},
          examples_dir \in {"dir", "absent", "noaccess"},
          examples \in ExampleSets :
          /\ examples_dir # "dir" => examples = {}
          /\ fs = [cwd |-> cwd, env |-> env, outputs |-> outputs,
                   examples_dir |-> examples_dir, examples |-> examples]
    /\ errors = <<>>
    /\ warnings = <<>>
    /\ python_version = None
    /\ langextract_version = None
    /\ pc = "call"
    /\ i = 1
    /\ passed = 0
    /\ ret = None
    /\ headers = <<>>
    /\ summary = <<>>
    /\ mkdirs = 0
    /\ exit_code = None

NextTwice == CallOutputDirectory

SpecTwice == InitTwice /\ [][NextTwice]_vars

(***************************************************************************)
(* Properties of the single checks.                                        *)
(***************************************************************************)
\* The step of the loop that runs the check called check_name.
StepOf(check_name) ==
    pc = "checks" /\ i <= total /\ checks[i] = check_name /\ i' = i + 1

\* The .env file read line by line: the first line that holds the key name,
\* blanks, and "=", and the value on that line after "=", stripped of
\* whitespace and then of quotes.
Blanks == Whitespace \ {"\n"}

SkipBlanks(s, p) ==
    Min({q \in p..(Len(s) + 1) : q = Len(s) + 1 \/ s[q] \notin Blanks})

KeyLines(s) ==
    {p \in 1..(Len(s) - Len(KeyName) + 1) :
        /\ SubSeq(s, p, p + Len(KeyName) - 1) = KeyName
        /\ SkipBlanks(s, p + Len(KeyName)) <= Len(s)
        /\ s[SkipBlanks(s, p + Len(KeyName))] = "="}

KeyLineValue(s) ==
    LET q == SkipBlanks(s, Min(KeyLines(s)) + Len(KeyName))
        rest == SubSeq(s, q + 1, LineEnd(s, q + 1) - 1)
    IN  strip_chars(strip_chars(rest, Whitespace), {"\"", "'"})

\* The error the claim expects for each cause of failure.  A key line with
\* nothing after "=" may be reported as either of the last two.
ExpectedCredentialErrors(env) ==
    IF ~env.exists THEN {"Missing .env file"}
    ELSE IF KeyLines(env.content) = {} THEN {"API key not configured"}
    ELSE IF KeyLineValue(env.content) = <<>>
    THEN {"API key not configured", "API key placeholder not replaced"}
    ELSE {"API key placeholder not replaced"}

CredentialUnset(env) ==
    \/ ~env.exists
    \/ /\ env.readable
       /\ \/ KeyLines(env.content) = {}
          \/ KeyLineValue(env.content) \in {<<>>, Placeholder}

CredentialSet(env) ==
    /\ env.exists
    /\ env.readable
    /\ KeyLines(env.content) # {}
    /\ KeyLineValue(env.content) \notin {<<>>, Placeholder}

\* C6: when .env is missing, holds no key line, or holds a key line whose
\* value is empty or the placeholder, the credential check returns False,
\* appends exactly one error, the one for that cause, and no warning.
C6_CredentialFailurePaths ==
    [][(StepOf("API Key Configuration") /\ CredentialUnset(fs.env)) =>
          /\ ret' = "False"
          /\ Len(errors') = Len(errors) + 1
          /\ SubSeq(errors', 1, Len(errors)) = errors
          /\ errors'[Len(errors')] \in ExpectedCredentialErrors(fs.env)
          /\ warnings' = warnings]_vars

\* C7: when .env holds a key line whose value is neither empty nor the
\* placeholder, the credential check returns True and appends no error; it
\* appends one format warning if the value does not both start with AIza
\* and have 35 characters or more, and nothing otherwise.
C7_CredentialPassPaths ==
    [][(StepOf("API Key Configuration") /\ CredentialSet(fs.env)) =>
          /\ ret' = "True"
          /\ passed' = passed + 1
          /\ errors' = errors
          /\ warnings' =
               IF /\ SubSeq(KeyLineValue(fs.env.content), 1, 4) = <<"A","I","z","a">>
                  /\ Len(KeyLineValue(fs.env.content)) >= 35
               THEN warnings
               ELSE Append(warnings, "API key format questionable")]_vars

\* C7 witness: the check has passed a 39-character AIza key with no warning
\* in one run, and in another has passed "shortkey" with a warning.
C7_Witness ==
    /\ pc = "checks"
    /\ i = 6
    /\ ret = "True"
    /\ KeyLineValue(fs.env.content) = ShortKey
    /\ warnings = <<"API key format questionable">>
    /\ errors = <<>>

\* C8: the interpreter-version check returns True and appends nothing when
\* the version is 3.11 or a later 3.x, returns False and appends exactly
\* one error for any other version, and records the version string.
C8_InterpreterVersion ==
    [][StepOf("Python Version") =>
          /\ version_info[1] = 3 /\ version_info[2] >= 11 =>
               ret' = "True" /\ errors' = errors
          /\ ~(version_info[1] = 3 /\ version_info[2] >= 11) =>
               /\ ret' = "False"
               /\ Len(errors') = Len(errors) + 1
               /\ SubSeq(errors', 1, Len(errors)) = errors
          /\ warnings' = warnings
          /\ python_version' # None
          /\ version_info = <<3, 10, 12>> => python_version' = "3.10.12"
          /\ version_info = <<3, 11, 0>> => python_version' = "3.11.0"
          /\ version_info = <<4, 11, 0>> => python_version' = "4.11.0"]_vars

\* C8 witness: version 4.11.0 has been checked and rejected with one error.
C8_Witness ==
    /\ i = 2
    /\ version_info = <<4, 11, 0>>
    /\ python_version = "4.11.0"
    /\ ret = "False"
    /\ errors = <<"Python version incompatible">>
    /\ warnings = <<>>

\* The expected example files the check can see to be missing.
MissingExamples(f) ==
    IF f.examples_dir = "absent" THEN AllExamples ELSE AllExamples \ f.examples

ExamplesVisible(f) == f.cwd # "rw-" /\ f.examples_dir # "noaccess"

\* One warning per missing file, in the order of the list.
MissingExampleWarnings(f) ==
    LET missing == SelectSeq(expected_examples, LAMBDA x : x \notin f.examples)
    IN  [k \in 1..Len(missing) |-> "Missing example: " \o missing[k]]

C10_OutputDirectoryIdempotent ==
    [][(pc = "call" /\ i >= 2 /\ i' = i + 1) =>
          /\ ret' = "True"
          /\ errors' = errors
          /\ warnings' = warnings
          /\ mkdirs' = mkdirs
          /\ fs' = fs]_vars

\* C10 witness: two calls were made; the first created the directory, the
\* second found it.
C10_Witness ==
    /\ pc = "call"
    /\ i = 3
    /\ mkdirs = 1
    /\ fs.outputs = "dir"
    /\ ret = "True"
    /\ errors = <<>>


\* The name of the active conda environment: the last component of the
\* path in CONDA_PREFIX.
EnvironmentName(prefix) ==
    LET slashes == {k \in 1..Len(prefix) : prefix[k] = "/"}
    IN  IF slashes = {} THEN prefix
        ELSE SubSeq(prefix, Max(slashes) + 1, Len(prefix))

MarkerMatches(env) ==
    /\ "CONDA_PREFIX" \in DOMAIN env
    /\ EnvironmentName(env["CONDA_PREFIX"]) = <<"l","a","n","g","e","x","t","r","a","c","t">>

\* C11: the execution-environment check always returns True and never
\* appends an error; it appends no warning when CONDA_PREFIX is set and names
\* the environment langextract, and exactly one warning when it is not set
\* or names another environment.
C11_EnvironmentCheckOnlyWarns ==
    [][StepOf("Conda Environment") =>
          /\ ret' = "True"
          /\ passed' = passed + 1
          /\ errors' = errors
          /\ SubSeq(warnings', 1, Len(warnings)) = warnings
          /\ Len(warnings') =
               IF MarkerMatches(environ) THEN Len(warnings)
               ELSE Len(warnings) + 1]_vars


\* The module names under which each listed dependency is looked for, in the
\* order they are tried.
NamesTried(dep) ==
    IF dep = "google.genai" THEN <<"google.generativeai", "google.genai">>
    ELSE IF dep = "python_dotenv" THEN <<"dotenv">>
    ELSE <<dep>>

\* No name the dependency is looked for under can be imported.
NotImportable(dep) ==
    \A k \in DOMAIN NamesTried(dep) : modules[NamesTried(dep)[k]] # "ok"

\* An import made for the dependency raises something other than
\* ImportError: the first name does, or the first name is missing and the
\* second does.
ImportFaults(dep) ==
    \E k \in DOMAIN NamesTried(dep) :
        /\ modules[NamesTried(dep)[k]] = "Exception"
        /\ \A j \in 1..(k - 1) : modules[NamesTried(dep)[j]] = "ImportError"

\* Position of the first dependency an import faults for (8 if none).
FirstFault ==
    Min({k \in 1..(Len(critical_deps) + 1) :
            k = Len(critical_deps) + 1 \/ ImportFaults(critical_deps[k])})

MissingErrors(deps) ==
    LET missing == SelectSeq(deps, NotImportable)
    IN  [k \in 1..Len(missing) |-> "Missing dependency: " \o missing[k]]

\* The entries of errs that report a missing dependency.
MissingEntries(errs) ==
    SelectSeq(errs, LAMBDA x :
        \E k \in DOMAIN critical_deps : x = "Missing dependency: " \o critical_deps[k])

\* The entries a step appended to errors.
NewErrors == SubSeq(errors', Len(errors) + 1, Len(errors'))

\* C12 as stated: the dependency check appends one "Missing dependency"
\* error for each listed dependency that is not importable, and no other.
C12_OneErrorPerMissingDependency ==
    [][StepOf("Dependencies") =>
          MissingEntries(NewErrors) = MissingErrors(critical_deps)]_vars

\* C12 amended: the dependencies are examined in list order up to the first
\* one an import faults for; for each examined one that is not importable
\* the check appends one "Missing dependency" error, whatever came before
\* it, and nothing for the others.  Without a fault that is the whole list
\* and the check returns; with a fault the check raises there.
C12_OneErrorPerMissingDependencyExamined ==
    [][StepOf("Dependencies") =>
          /\ SubSeq(errors', 1, Len(errors)) = errors
          /\ MissingEntries(NewErrors) =
                 MissingErrors(SubSeq(critical_deps, 1, FirstFault - 1))
          /\ IF FirstFault > Len(critical_deps)
             THEN /\ ret' = "None"
                  /\ NewErrors = MissingErrors(critical_deps)
             ELSE /\ ret' = "raise"
                  /\ Len(NewErrors) = Len(MissingEntries(NewErrors)) + 1
          /\ warnings' = warnings]_vars

\* C12 witness: the second and the last dependency of the list were both
\* reported missing by one run of the check.
C12_Witness ==
    /\ pc = "checks"
    /\ i = 5
    /\ ret = "None"
    /\ errors = <<"Missing dependency: aiohttp", "Missing dependency: pandas">>


\* C13: no step of a run changes the credential file, the examples directory
\* or an example file (nor the permissions of the working directory); the
\* only change to the files is outputs going from absent to a directory.
C13_OnlyOutputsIsCreated ==
    [][/\ fs'.env = fs.env
       /\ fs'.examples_dir = fs.examples_dir
       /\ fs'.examples = fs.examples
       /\ fs'.cwd = fs.cwd
       /\ fs'.outputs # fs.outputs =>
            /\ fs.outputs = "absent"
            /\ fs'.outputs = "dir"
            /\ pc = "checks"
            /\ checks[i] = "Output Directory"]_vars

\* C13 witness: a finished run that created outputs/ and found a file named
\* .env, which is still there.
C13_Witness ==
    /\ pc = "done"
    /\ mkdirs = 1
    /\ fs.outputs = "dir"
    /\ fs.env.exists
    /\ fs.examples # AllExamples

\* C14: the summary is printed once, when all eight checks have finished and
\* before the process exits; it lists the errors and warnings as they are
\* then, and neither list changes afterwards.
C14_SummaryOnceAfterChecks ==
    /\ pc \in {"checks", "summary"} => summary = <<>> /\ exit_code = None
    /\ pc \in {"exit", "done"} =>
         /\ Len(summary) = 1
         /\ Len(headers) = 8
         /\ summary[1].errors = errors
         /\ summary[1].warnings = warnings
         /\ summary[1].passed = passed
    /\ pc = "exit" => exit_code = None
    /\ pc = "done" => exit_code \in {0, 1}

\* C14 witness: the process has exited after a run in which a check raised;
\* the one summary lists the runner's entry for it and a warning.
C14_Witness ==
    /\ pc = "done"
    /\ Len(summary) = 1
    /\ \E j \in DOMAIN summary[1].errors :
           RefersTo(summary[1].errors[j], "Output Directory")
    /\ summary[1].warnings # <<>>


\* C15: for every check but the dependency check, the runner counts the
\* check as passed exactly when the check's pass of the loop appended no
\* error (so a check that only warns is counted as passed).
C15_PassedIffNoError ==
    [][(pc = "checks" /\ i <= total /\ i' = i + 1
          /\ checks[i] # "Dependencies") =>
          /\ passed' \in {passed, passed + 1}
          /\ SubSeq(errors', 1, Len(errors)) = errors
          /\ passed' = passed + 1 <=> errors' = errors]_vars

\* C15 witness: a finished run with warnings from two checks and no error
\* counted every check but the dependency check as passed.
C15_Witness ==
    /\ pc = "done"
    /\ errors = <<>>
    /\ Len(warnings) >= 2
    /\ warnings[1] = "May not be in correct conda environment"
    /\ passed = total - 1

\* The place in the list of checks of the check that writes a message.
CheckIndex(check_name) == CHOOSE k \in 1..total : checks[k] = check_name

Origin(message) ==
    CASE message = "Python version incompatible" -> CheckIndex("Python Version")
      [] message \in {"May not be in correct conda environment",
                      "Consider using conda environment for better isolation"} ->
             CheckIndex("Conda Environment")
      [] message \in {"LangExtract not installed",
                      "LangExtract error: " \o ImportFault} ->
             CheckIndex("LangExtract Installation")
      [] \E k \in DOMAIN critical_deps :
             message = "Missing dependency: " \o critical_deps[k] ->
             CheckIndex("Dependencies")
      [] message \in {"Missing .env file", "API key not configured",
                      "API key placeholder not replaced",
                      "API key format questionable",
                      ".env file error: " \o PermissionDenied(".env")} ->
             CheckIndex("API Key Configuration")
      [] message = "Missing examples directory" -> CheckIndex("Example Files")
      [] \E x \in AllExamples : message = "Missing example: " \o x ->
             CheckIndex("Example Files")
      [] \E k \in 1..total : RefersTo(message, checks[k]) ->
             CHOOSE k \in 1..total : RefersTo(message, checks[k])
      [] OTHER -> 0

InCheckOrder(messages) ==
    \A j, k \in DOMAIN messages :
        j < k => 1 <= Origin(messages[j]) /\ Origin(messages[j]) <= Origin(messages[k])

IsPrefix(s, t) == Len(s) <= Len(t) /\ SubSeq(t, 1, Len(s)) = s

\* C16: errors and warnings are empty for a fresh validator, every step
\* keeps what they held as a prefix of what they hold next, and in each list
\* the entries of an earlier check come before those of a later one.
C16_AppendOnly ==
    /\ errors = <<>> /\ warnings = <<>>
    /\ [][IsPrefix(errors, errors') /\ IsPrefix(warnings, warnings')]_vars
    /\ [](InCheckOrder(errors) /\ InCheckOrder(warnings))

\* C16 witness: a finished run whose errors come from two checks, the
\* earlier check's entry first.
C16_Witness ==
    /\ pc = "done"
    /\ Len(errors) = 2
    /\ errors[1] = "Python version incompatible"
    /\ errors[2] = "Missing .env file"


(***************************************************************************)
(* examples/00_quick_test.py.  The script runs four tests in a loop that   *)
(* catches what a test raises, prints the count and exits.  In its         *)
(* specification pc is "tests", "results", "exit" or "done", i is the      *)
(* index into `tests` of the next test, headers holds the "--- name ---"   *)
(* lines and summary the result line printed for each test.  os.environ    *)
(* is read for LANGEXTRACT_API_KEY; the validator's fields stay as         *)
(* they are.                                                               *)
(***************************************************************************)
tests == <<"Imports", "Environment", "Basic Extraction", "Output Capabilities">>

total_tests == Len(tests)

ApiKeyVar == "LANGEXTRACT_API_KEY"

\* Imports of another exception than ImportError leave the function.
test_imports(mods) ==
    CASE mods["langextract"] = "ImportError" -> "False"
      [] mods["langextract"] = "Exception" -> "raise"
      [] mods["dotenv"] = "ImportError" -> "False"
      [] mods["dotenv"] = "Exception" -> "raise"
      [] OTHER -> "True"

\* What load_dotenv() can do, given the .env file: find no value for the
\* variable, find one, or fail to read the file.
LoadOutcomes(env_file) ==
    IF ~env_file.exists THEN { [kind |-> "none", value |-> <<>>] }
    ELSE IF ~env_file.readable
    THEN { [kind |-> "none", value |-> <<>>], [kind |-> "raise", value |-> <<>>] }
    ELSE { [kind |-> "none", value |-> <<>>] }
         \cup { [kind |-> "value", value |-> v] : v \in {<<>>, Placeholder, GoodKey} }

\* os.environ after load_dotenv(), which keeps a variable that is set.
environ_after_load(mods, env, load) ==
    IF mods["dotenv"] = "ok" /\ load.kind = "value" /\ ApiKeyVar \notin DOMAIN env
    THEN env @@ (ApiKeyVar :> load.value)
    ELSE env

\* The import is outside any try, and so is load_dotenv().
test_environment(mods, env, load) ==
    IF mods["dotenv"] # "ok" \/ load.kind = "raise" THEN "raise"
    ELSE LET after == environ_after_load(mods, env, load)
         IN  IF ApiKeyVar \notin DOMAIN after THEN "False"
             ELSE IF after[ApiKeyVar] = <<>> THEN "False"
             ELSE IF after[ApiKeyVar] = Placeholder THEN "False"
             ELSE "True"

\* Everything is inside try/except Exception; outcome is what lx.extract
\* does: "result" (a truthy result), "falsy" or "raise".
test_basic_extraction(mods, outcome) ==
    IF mods["langextract"] # "ok" \/ mods["dotenv"] # "ok" THEN "False"
    ELSE IF outcome = "result" THEN "True"
    ELSE "False"

\* Whether the test calls mkdir.
quick_output_mkdir(f) == f.cwd # "rw-" /\ f.outputs \notin {"dir", "file"}

\* The files after the test; the test file is written and removed again.
quick_output_fs(f) ==
    IF quick_output_mkdir(f) /\ f.outputs = "absent" /\ f.cwd = "rwx"
    THEN [f EXCEPT !.outputs = "dir"]
    ELSE f

\* exists() and mkdir are outside the try; written says whether writing
\* and removing the test file in a directory outputs/ works.
test_output_capabilities(f, written) ==
    IF f.cwd = "rw-" THEN "raise"
    ELSE IF f.outputs = "file" THEN "False"
    ELSE IF f.outputs = "dangling" THEN "raise"
    ELSE IF f.outputs = "absent" /\ f.cwd # "rwx" THEN "raise"
    ELSE IF written THEN "True"
    ELSE "False"

\* The line the loop prints for a test.
result_line(test_name, res) ==
    CASE res = "True" -> test_name \o " PASSED"
      [] res = "raise" -> test_name \o " FAILED with exception"
      [] OTHER -> test_name \o " FAILED"

\* A variant that calls the setup ready only when every test passed.
main_returns_all_passed(p, t) == p = t

\* What main returns for p passed tests of t.
main_returns(p, t) ==
    IF p = t THEN TRUE
    ELSE IF p >= t - 1 THEN TRUE
    ELSE FALSE

\* sys.exit(0 if success else 1)
quick_exit_status(success) == IF success = "True" THEN 0 ELSE 1

\* One pass of the loop of main over the test called test_name, whose call
\* ended in res.
QuickTest(test_name, res) ==
    /\ pc = "tests"
    /\ i <= total_tests
    /\ tests[i] = test_name
    /\ headers' = Append(headers, test_name)
    /\ ret' = res
    /\ passed' = IF res = "True" THEN passed + 1 ELSE passed
    /\ summary' = Append(summary, result_line(test_name, res))
    /\ i' = i + 1
    /\ pc' = IF i' > total_tests THEN "results" ELSE "tests"
    /\ UNCHANGED <<version_info, modules, lx, exit_code>>
    /\ UNCHANGED val_vars

Imports ==
    /\ QuickTest("Imports", test_imports(modules))
    /\ UNCHANGED <<environ, fs, mkdirs>>

Environment ==
    \E load \in LoadOutcomes(fs.env) :
        /\ QuickTest("Environment", test_environment(modules, environ, load))
        /\ environ' = environ_after_load(modules, environ, load)
        /\ UNCHANGED <<fs, mkdirs>>

\* load_dotenv() is called again here; it finds what the call in
\* test_environment found and keeps the variables that are set.
BasicExtraction ==
    \E outcome \in {"result", "falsy", "raise"} :
        /\ QuickTest("Basic Extraction", test_basic_extraction(modules, outcome))
        /\ UNCHANGED <<environ, fs, mkdirs>>

OutputCapabilities ==
    \E written \in BOOLEAN :
        /\ QuickTest("Output Capabilities", test_output_capabilities(fs, written))
        /\ fs' = quick_output_fs(fs)
        /\ mkdirs' = IF quick_output_mkdir(fs) THEN mkdirs + 1 ELSE mkdirs
        /\ UNCHANGED environ

\* main prints the count and returns.
Results ==
    /\ pc = "results"
    /\ ret' = IF main_returns(passed, total_tests) THEN "True" ELSE "False"
    /\ pc' = "exit"
    /\ UNCHANGED <<i, passed, headers, summary, exit_code, fs, mkdirs>>
    /\ UNCHANGED env_vars
    /\ UNCHANGED val_vars

QuickExit ==
    /\ pc = "exit"
    /\ exit_code' = quick_exit_status(ret)
    /\ pc' = "done"
    /\ UNCHANGED <<i, passed, ret, headers, summary, fs, mkdirs>>
    /\ UNCHANGED env_vars
    /\ UNCHANGED val_vars

NextQuick ==
    \/ Imports
    \/ Environment
    \/ BasicExtraction
    \/ OutputCapabilities
    \/ Results
    \/ QuickExit

\* os.environ before the script runs: the variable unset, empty, the
\* placeholder or a key.
QuickEnvirons ==
    { <<>>, ApiKeyVar :> <<>>, ApiKeyVar :> Placeholder, ApiKeyVar :> GoodKey }

\* The module tables in which only the two modules the script imports
\* may fail.
QuickModuleTables ==
    { [m \in ModuleNames |->
          IF m = "langextract" THEN a ELSE IF m = "dotenv" THEN b ELSE "ok"] :
        a, b \in {"ok", "ImportError", "Exception"} }

InitQuick ==
    /\ version_info = RefVersion
    /\ lx = RefPackage
    /\ environ \in QuickEnvirons
    /\ modules \in QuickModuleTables
    /\ \E cwd \in {"rwx", "r-x", "rw-"},
          env \in {RefEnvFile, NoEnvFile, UnreadableEnvFile},
          outputs \in {"dir", "file", "absent", "dangling"} :
          fs = [cwd |-> cwd, env |-> env, outputs |-> outputs,
                examples_dir |-> "dir", examples |-> AllExamples]
    /\ errors = <<>>
    /\ warnings = <<>>
    /\ python_version = None
    /\ langextract_version = None
    /\ pc = "tests"
    /\ i = 1
    /\ passed = 0
    /\ ret = None
    /\ headers = <<>>
    /\ summary = <<>>
    /\ mkdirs = 0
    /\ exit_code = None

SpecQuick == InitQuick /\ [][NextQuick]_vars

\* The tests whose printed result line is not the PASSED line.
FailedTests == {k \in DOMAIN summary : summary[k] # tests[k] \o " PASSED"}

\* C17: the script runs its four tests in order, a test that returns a
\* falsy value or raises is counted as failed and the next test still runs,
\* and the exit code is 0 exactly when at most one test failed, 1 otherwise.
C17_QuickTestExitCode ==
    /\ [](/\ headers = SubSeq(tests, 1, Len(headers))
          /\ Len(summary) = Len(headers)
          /\ passed = Len(summary) - Cardinality(FailedTests))
    /\ [][pc = "tests" =>
            /\ i' = i + 1
            /\ headers' = Append(headers, tests[i])
            /\ ret' \in {"True", "False", "raise"}
            /\ ret' = "True" <=> Len(summary') \notin FailedTests']_vars
    /\ [](pc = "done" =>
            /\ headers = tests
            /\ exit_code \in {0, 1}
            /\ exit_code = 0 <=> Cardinality(FailedTests) <= 1)

\* C17 witness: the second test raised, the two after it ran and passed,
\* and the script exited with code 0.
C17_Witness ==
    /\ pc = "done"
    /\ summary = << "Imports PASSED", "Environment FAILED with exception",
                    "Basic Extraction PASSED", "Output Capabilities PASSED" >>
    /\ passed = 3
    /\ exit_code = 0

=============================================================================
